---- MODULE Spec2Model ----
(***************************************************************************)
(* Model of the voice assistant's capture callback, coordination loop and  *)
(* timeout tool (src/src/main.rs, src/src/tools/timeout.rs).               *)
(*                                                                         *)
(* Time is an integer number of ticks of 100 ms.  Lock operations, reads   *)
(* and writes of the shared state take no time: the clock advances only    *)
(* while the coordinator sleeps or sits in an external call and the        *)
(* capture callback is idle or waits for a lock somebody holds.            *)
(*                                                                         *)
(* cfg.use_tools = false is the behaviour in which the dialogue call makes *)
(* no tool call, which Chat allows, so it needs no variable of its own.    *)
(***************************************************************************)
EXTENDS Integers, Sequences, FiniteSets, TLC

\* ---------------------------------------------------------------- bounds
MaxTime == 8          \* the clock stops here
MaxBuf == 4           \* samples the buffer may hold before frames stop
MaxMute == 2          \* largest parameter the dialogue engine passes the tool
MaxToolCalls == 2     \* tool calls inside one dialogue call
MaxLen == 12          \* samples in a buffer given to downsample_to_16k alone
MaxText == 2          \* characters before and after the marker in a reply

\* ------------------------------------------------------ program constants
PollPeriod == 1       \* 100 ms
TicksPerSec == 10     \* Duration::from_secs(1) in ticks
SilenceDuration == 2  \* cfg.silence_duration in ticks
SilenceThreshold == 1 \* cfg.silence_threshold
SampleRate == 48000   \* config.sample_rate() of the device

MAGIC_WORD == <<"c", "a", "t">>

\* frames the device delivers: one at the threshold, one above it
Frames == { <<1, 1>>, <<-2, 0>> }

\* transcripts the transcription engine returns
Prompts == { <<"h", "i">>, <<"C", "a", "T">>, <<"a", "c", "a", "t">> }

Locks == {"speech_buffer", "has_talked", "last_voice_time", "timeout"}

VARIABLES
  now,              \* Instant::now()
  speech_buffer,    \* Vec<f32>
  has_talked,       \* bool
  last_voice_time,  \* Instant
  timeout,          \* Instant (suppressed-until)
  owner,            \* who holds each Mutex: "none", "capture", "main"
  cap_pc,           \* position of the input stream callback
  cap_data,         \* the frame the callback was invoked with
  pc,               \* position of the coordination loop
  wake_at,          \* end of the loop's current sleep
  elapsed,          \* main's local `elapsed`
  poll_at,          \* the instant `elapsed` was measured at
  prompt,           \* main's local `prompt`
  chat_input,       \* the user message given to coordinator.chat
  tool_calls,       \* TimeoutTool calls made by the running dialogue call
  last_call,        \* the last TimeoutTool call: parameter, time, timeout before
  voiced_seen,      \* history: some delivered frame had energy above the threshold
  delivered,        \* history: samples of the frames the callback was invoked
                    \* with since buffer.clear() last ran, in delivery order
  prev_end,         \* history: how the last turn ended
  fn_pc,            \* the function under study: "off", "resample", "clean", "done"
  fn_in,            \* its input: samples, or the code points of a reply
  fn_rate,          \* input_rate of downsample_to_16k
  fn_out            \* its result

vars == << now, speech_buffer, has_talked, last_voice_time, timeout, owner,
           cap_pc, cap_data, pc, wake_at, elapsed, poll_at, prompt, chat_input,
           tool_calls, last_call, voiced_seen, delivered, prev_end,
           fn_pc, fn_in, fn_rate, fn_out >>

shared == << speech_buffer, has_talked, last_voice_time >>
capVars == << cap_pc, cap_data, voiced_seen >>
mainLocals == << elapsed, poll_at, prompt, chat_input >>
toolVars == << tool_calls, last_call >>
pureVars == << fn_pc, fn_in, fn_rate, fn_out >>
mainVars == << now, speech_buffer, has_talked, last_voice_time, timeout, owner,
               cap_pc, cap_data, pc, wake_at, elapsed, poll_at, prompt,
               chat_input, tool_calls, last_call, voiced_seen, delivered,
               prev_end >>

NoCall == [n |-> -1, at |-> -1, before |-> -1]

\* ---------------------------------------------------------------- helpers
RECURSIVE SumSq(_)
SumSq(data) ==
  IF data = <<>> THEN 0 ELSE Head(data) * Head(data) + SumSq(Tail(data))

\* rms > cfg.silence_threshold, with rms = sum(s*s) / len; 0/0 is NaN and
\* NaN > x is false
RmsExceeds_Geq(data) ==
  /\ Len(data) > 0
  /\ SumSq(data) >= SilenceThreshold * Len(data)

RmsExceeds(data) ==
  /\ Len(data) > 0
  /\ SumSq(data) > SilenceThreshold * Len(data)

extend_from_slice_VoicedOnly(buffer, data) ==
  IF RmsExceeds(data) THEN buffer \o data ELSE buffer

\* buffer.extend_from_slice(data)
extend_from_slice(buffer, data) == buffer \o data

\* *has_talked after the callback ran on data
CaptureHasTalked_Reset(ht, data) == RmsExceeds(data)

CaptureHasTalked(ht, data) == IF RmsExceeds(data) THEN TRUE ELSE ht

\* *last_time after the callback ran on data at instant t
CaptureLastTime(lt, data, t) == IF RmsExceeds(data) THEN t ELSE lt

LowerChar(c) ==
  CASE c = "C" -> "c"
    [] c = "A" -> "a"
    [] c = "T" -> "t"
    [] OTHER -> c

to_lowercase(s) == [i \in 1..Len(s) |-> LowerChar(s[i])]

contains(s, pat) ==
  \E i \in 0..(Len(s) - Len(pat)) :
    \A j \in 1..Len(pat) : s[i + j] = pat[j]

\* timeout.duration_since(Instant::now()): saturates at zero
duration_since(later, earlier) == IF later > earlier THEN later - earlier ELSE 0

as_secs(d) == d \div TicksPerSec

\* the condition of the `if` at the mute check
Muted_NoLower(to, t, p) ==
  /\ as_secs(duration_since(to, t)) > 0
  /\ ~ contains(p, MAGIC_WORD)

Muted(to, t, p) ==
  /\ as_secs(duration_since(to, t)) > 0
  /\ ~ contains(to_lowercase(p), MAGIC_WORD)

\* Instant::now().add(Duration::from_secs(n))
ToolTimeout_Additive(to, t, n) == to + n * TicksPerSec

ToolTimeout(to, t, n) == t + n * TicksPerSec

\* the same with the ratio taken as 16000 / rate
RECURSIVE Decimate_InvertedRatio(_, _, _)
Decimate_InvertedRatio(input, i, rate) ==
  IF i >= Len(input) THEN <<>>
  ELSE (IF 2 * ((i * rate) % 16000) < rate THEN << input[i + 1] >> ELSE <<>>)
       \o Decimate_InvertedRatio(input, i + 1, rate)

\* downsample_to_16k: keep index i when round(i % ratio) = 0, ratio = rate/16000;
\* i % ratio = ((i * 16000) mod rate) / 16000 and round(x) = 0 iff x < 1/2
RECURSIVE Decimate(_, _, _)
Decimate(input, i, rate) ==
  IF i >= Len(input) THEN <<>>
  ELSE (IF 2 * ((i * 16000) % rate) < 16000 THEN << input[i + 1] >> ELSE <<>>)
       \o Decimate(input, i + 1, rate)

downsample_to_16k(input, rate) == Decimate(input, 0, rate)

Acquire(l, who) == [owner EXCEPT ![l] = who]
ReleaseAll(who) == [l \in Locks |-> IF owner[l] = who THEN "none" ELSE owner[l]]

Alive == pc # "panicked"

\* the frame of a callback invocation that has not appended it yet
InFlight == IF cap_pc = "idle" THEN <<>> ELSE cap_data

\* ------------------------------------------------------------------- Init
MainInit ==
  /\ now = 0
  /\ speech_buffer = <<>>
  /\ has_talked = FALSE
  /\ last_voice_time = 0
  /\ timeout = 0
  /\ owner = [l \in Locks |-> "none"]
  /\ cap_pc = "idle"
  /\ cap_data = <<>>
  /\ pc = "sleep"
  /\ wake_at = PollPeriod
  /\ elapsed = 0
  /\ poll_at = 0
  /\ prompt = <<>>
  /\ chat_input = <<>>
  /\ tool_calls = 0
  /\ last_call = NoCall
  /\ voiced_seen = FALSE
  /\ delivered = <<>>
  /\ prev_end = "none"

Init ==
  /\ MainInit
  /\ fn_pc = "off"
  /\ fn_in = <<>>
  /\ fn_rate = 0
  /\ fn_out = <<>>

\* ------------------------------------------------- input stream callback
\* the device invokes the callback with a frame
FrameDelivered ==
  /\ Alive
  /\ cap_pc = "idle"
  /\ \E data \in Frames :
       /\ Len(speech_buffer) + Len(data) <= MaxBuf
       /\ cap_data' = data
       /\ voiced_seen' = (voiced_seen \/ SumSq(data) > SilenceThreshold * Len(data))
  /\ cap_pc' = "lock_buffer"
  /\ UNCHANGED << now, shared, timeout, owner, pc, wake_at, mainLocals, toolVars >>
  /\ delivered' = delivered \o cap_data'
  /\ UNCHANGED prev_end
  /\ UNCHANGED pureVars

CaptureLockBuffer ==
  /\ Alive
  /\ cap_pc = "lock_buffer"
  /\ owner["speech_buffer"] = "none"
  /\ owner' = Acquire("speech_buffer", "capture")
  /\ cap_pc' = "lock_has_talked"
  /\ UNCHANGED << now, shared, timeout, cap_data, voiced_seen, pc, wake_at,
                  mainLocals, toolVars >>
  /\ UNCHANGED << delivered, prev_end >>
  /\ UNCHANGED pureVars

CaptureLockHasTalked ==
  /\ Alive
  /\ cap_pc = "lock_has_talked"
  /\ owner["has_talked"] = "none"
  /\ owner' = Acquire("has_talked", "capture")
  /\ cap_pc' = "lock_last_time"
  /\ UNCHANGED << now, shared, timeout, cap_data, voiced_seen, pc, wake_at,
                  mainLocals, toolVars >>
  /\ UNCHANGED << delivered, prev_end >>
  /\ UNCHANGED pureVars

CaptureLockLastTime ==
  /\ Alive
  /\ cap_pc = "lock_last_time"
  /\ owner["last_voice_time"] = "none"
  /\ owner' = Acquire("last_voice_time", "capture")
  /\ cap_pc' = "body"
  /\ UNCHANGED << now, shared, timeout, cap_data, voiced_seen, pc, wake_at,
                  mainLocals, toolVars >>
  /\ UNCHANGED << delivered, prev_end >>
  /\ UNCHANGED pureVars

\* extend the buffer, classify the frame, drop the three guards
CaptureBody ==
  /\ Alive
  /\ cap_pc = "body"
  /\ speech_buffer' = extend_from_slice(speech_buffer, cap_data)
  /\ last_voice_time' = CaptureLastTime(last_voice_time, cap_data, now)
  /\ has_talked' = CaptureHasTalked(has_talked, cap_data)
  /\ owner' = ReleaseAll("capture")
  /\ cap_pc' = "idle"
  /\ UNCHANGED << now, timeout, cap_data, voiced_seen, pc, wake_at,
                  mainLocals, toolVars >>
  /\ UNCHANGED << delivered, prev_end >>
  /\ UNCHANGED pureVars

\* ------------------------------------------------------ coordination loop
\* what the end of an iteration does: the guards of the block are dropped and
\* the next iteration starts with thread::sleep
EndIteration ==
  /\ owner' = ReleaseAll("main")
  /\ pc' = "sleep"
  /\ wake_at' = now + PollPeriod
  /\ elapsed' = 0
  /\ poll_at' = 0
  /\ prompt' = <<>>
  /\ chat_input' = <<>>

\* the sleep ends; last_voice_time.lock().unwrap().elapsed() and the test on it
Poll ==
  /\ pc = "sleep"
  /\ now >= wake_at
  /\ owner["last_voice_time"] = "none"
  /\ LET e == now - last_voice_time IN
       IF e > SilenceDuration
         THEN /\ elapsed' = e
              /\ poll_at' = now
              /\ pc' = "lock_buffer"
              /\ UNCHANGED << owner, wake_at, prompt, chat_input >>
         ELSE EndIteration
  /\ UNCHANGED << now, shared, timeout, capVars, toolVars >>
  /\ UNCHANGED << delivered, prev_end >>
  /\ UNCHANGED pureVars

MainLockBuffer ==
  /\ pc = "lock_buffer"
  /\ owner["speech_buffer"] = "none"
  /\ owner' = Acquire("speech_buffer", "main")
  /\ pc' = "lock_has_talked"
  /\ UNCHANGED << now, shared, timeout, capVars, wake_at, mainLocals, toolVars >>
  /\ UNCHANGED << delivered, prev_end >>
  /\ UNCHANGED pureVars

\* has_talked.lock() and `if *has_talked`; when true the transcription call
\* is issued on downsample_to_16k(&buffer, sample_rate)
MainLockHasTalked ==
  /\ pc = "lock_has_talked"
  /\ owner["has_talked"] = "none"
  /\ IF has_talked
       THEN /\ owner' = Acquire("has_talked", "main")
            /\ pc' = "transcribing"
            /\ UNCHANGED << wake_at, mainLocals >>
       ELSE EndIteration
  /\ UNCHANGED << now, shared, timeout, capVars, toolVars >>
  /\ UNCHANGED << delivered, prev_end >>
  /\ UNCHANGED pureVars

\* state.full returns and the first segment's text becomes the prompt
TranscribeDone ==
  /\ pc = "transcribing"
  /\ \E p \in Prompts : prompt' = p
  /\ pc' = "clear"
  /\ UNCHANGED << now, shared, timeout, owner, capVars, wake_at, elapsed,
                  poll_at, chat_input, toolVars >>
  /\ UNCHANGED << delivered, prev_end >>
  /\ UNCHANGED pureVars

\* create_state().unwrap() or state.full(..).expect("Whisper failed") panics
TranscribeFail ==
  /\ pc = "transcribing"
  /\ pc' = "panicked"
  /\ UNCHANGED << now, shared, timeout, owner, capVars, wake_at, mainLocals,
                  toolVars >>
  /\ UNCHANGED << delivered, prev_end >>
  /\ UNCHANGED pureVars

\* buffer.clear()
Clear ==
  /\ pc = "clear"
  /\ speech_buffer' = <<>>
  /\ delivered' = InFlight
  /\ pc' = "reset_has_talked"
  /\ UNCHANGED << now, has_talked, last_voice_time, timeout, owner, capVars,
                  wake_at, mainLocals, toolVars, prev_end >>
  /\ UNCHANGED pureVars

ResetHasTalked_Forgotten ==
  /\ pc = "reset_has_talked"
  /\ pc' = "check_mute"
  /\ UNCHANGED << now, shared, timeout, owner, capVars, wake_at, mainLocals,
                  toolVars, delivered, prev_end >>
  /\ UNCHANGED pureVars

\* *has_talked = false
ResetHasTalked ==
  /\ pc = "reset_has_talked"
  /\ has_talked' = FALSE
  /\ pc' = "check_mute"
  /\ UNCHANGED << now, speech_buffer, last_voice_time, timeout, owner, capVars,
                  wake_at, mainLocals, toolVars, delivered, prev_end >>
  /\ UNCHANGED pureVars

CheckMute_KeepsGuard ==
  /\ pc = "check_mute"
  /\ owner["timeout"] = "none"
  /\ IF Muted(timeout, now, prompt)
       THEN EndIteration
       ELSE /\ pc' = "reset_timeout"
            /\ owner' = Acquire("timeout", "main")
            /\ UNCHANGED << wake_at, mainLocals >>
  /\ UNCHANGED << now, shared, timeout, capVars, toolVars >>
  /\ prev_end' = IF Muted(timeout, now, prompt) THEN "dropped" ELSE prev_end
  /\ UNCHANGED delivered
  /\ UNCHANGED pureVars

\* the mute check: "Timeout" drops the turn
CheckMute ==
  /\ pc = "check_mute"
  /\ owner["timeout"] = "none"
  /\ IF Muted(timeout, now, prompt)
       THEN EndIteration
       ELSE /\ pc' = "reset_timeout"
            /\ UNCHANGED << owner, wake_at, mainLocals >>
  /\ UNCHANGED << now, shared, timeout, capVars, toolVars >>
  /\ prev_end' = IF Muted(timeout, now, prompt) THEN "dropped" ELSE prev_end
  /\ UNCHANGED delivered
  /\ UNCHANGED pureVars

\* *timeout.lock().unwrap() = Instant::now(); then coordinator.chat(prompt)
ResetTimeout ==
  /\ pc = "reset_timeout"
  /\ owner["timeout"] = "none"
  /\ timeout' = now
  /\ chat_input' = prompt
  /\ tool_calls' = 0
  /\ pc' = "chat"
  /\ UNCHANGED << now, shared, owner, capVars, wake_at, elapsed, poll_at,
                  prompt, last_call >>
  /\ UNCHANGED << delivered, prev_end >>
  /\ UNCHANGED pureVars

\* the dialogue engine calls TimeoutTool::call with parameter n
TimeoutToolCall ==
  /\ pc = "chat"
  /\ tool_calls < MaxToolCalls
  /\ owner["timeout"] = "none"
  /\ \E n \in 0..MaxMute :
       /\ timeout' = ToolTimeout(timeout, now, n)
       /\ last_call' = [n |-> n, at |-> now, before |-> timeout]
  /\ tool_calls' = tool_calls + 1
  /\ UNCHANGED << now, shared, owner, capVars, pc, wake_at, mainLocals >>
  /\ UNCHANGED << delivered, prev_end >>
  /\ UNCHANGED pureVars

ChatOk_ResetsTimeout ==
  /\ pc = "chat"
  /\ pc' = "synth"
  /\ timeout' = now
  /\ UNCHANGED << now, shared, owner, capVars, wake_at, mainLocals, toolVars >>
  /\ UNCHANGED << delivered, prev_end >>
  /\ UNCHANGED pureVars

\* coordinator.chat returns Ok(res)
ChatOk ==
  /\ pc = "chat"
  /\ pc' = "synth"
  /\ UNCHANGED << now, shared, timeout, owner, capVars, wake_at, mainLocals,
                  toolVars >>
  /\ UNCHANGED << delivered, prev_end >>
  /\ UNCHANGED pureVars

ChatErr_Panics ==
  /\ pc = "chat"
  /\ pc' = "panicked"
  /\ UNCHANGED << now, shared, timeout, owner, capVars, wake_at, mainLocals,
                  toolVars, delivered, prev_end >>
  /\ UNCHANGED pureVars

\* coordinator.chat returns Err: "Error failed to get response from AI"; continue
ChatErr ==
  /\ pc = "chat"
  /\ EndIteration
  /\ UNCHANGED << now, shared, timeout, capVars, toolVars >>
  /\ prev_end' = "abandoned"
  /\ UNCHANGED delivered
  /\ UNCHANGED pureVars

SynthDone_NoWait ==
  /\ pc = "synth"
  /\ EndIteration
  /\ UNCHANGED << now, shared, timeout, capVars, toolVars >>
  /\ prev_end' = "played"
  /\ UNCHANGED delivered
  /\ UNCHANGED pureVars

SynthDone_RechecksMute ==
  /\ pc = "synth"
  /\ IF Muted(timeout, now, prompt)
       THEN /\ EndIteration
            /\ prev_end' = "dropped"
       ELSE /\ pc' = "play"
            /\ UNCHANGED << owner, wake_at, mainLocals, prev_end >>
  /\ UNCHANGED << now, shared, timeout, capVars, toolVars, delivered >>
  /\ UNCHANGED pureVars

\* synthesize_to_file returns; the file is opened and decoded; sink.append
SynthDone ==
  /\ pc = "synth"
  /\ pc' = "play"
  /\ UNCHANGED << now, shared, timeout, owner, capVars, wake_at, mainLocals,
                  toolVars >>
  /\ UNCHANGED << delivered, prev_end >>
  /\ UNCHANGED pureVars

\* "Failed to synthesize speech" / "Failed to open file" / "Failed to decode"
SynthFail ==
  /\ pc = "synth"
  /\ pc' = "panicked"
  /\ UNCHANGED << now, shared, timeout, owner, capVars, wake_at, mainLocals,
                  toolVars >>
  /\ UNCHANGED << delivered, prev_end >>
  /\ UNCHANGED pureVars

\* sink.sleep_until_end() returns; the iteration ends
PlayDone ==
  /\ pc = "play"
  /\ EndIteration
  /\ UNCHANGED << now, shared, timeout, capVars, toolVars >>
  /\ prev_end' = "played"
  /\ UNCHANGED delivered
  /\ UNCHANGED pureVars

\* ------------------------------------------------------------------ clock
CaptureCanStep ==
  \/ cap_pc = "lock_buffer" /\ owner["speech_buffer"] = "none"
  \/ cap_pc = "lock_has_talked" /\ owner["has_talked"] = "none"
  \/ cap_pc = "lock_last_time" /\ owner["last_voice_time"] = "none"
  \/ cap_pc = "body"

MainCanStep ==
  \/ pc = "sleep" /\ now >= wake_at /\ owner["last_voice_time"] = "none"
  \/ pc = "lock_buffer" /\ owner["speech_buffer"] = "none"
  \/ pc = "lock_has_talked" /\ owner["has_talked"] = "none"
  \/ pc \in {"clear", "reset_has_talked"}
  \/ pc \in {"check_mute", "reset_timeout"} /\ owner["timeout"] = "none"

Tick ==
  /\ Alive
  /\ now < MaxTime
  /\ ~ CaptureCanStep
  /\ ~ MainCanStep
  /\ now' = now + 1
  /\ UNCHANGED << shared, timeout, owner, capVars, pc, wake_at, mainLocals,
                  toolVars >>
  /\ UNCHANGED << delivered, prev_end >>
  /\ UNCHANGED pureVars

Next ==
  \/ FrameDelivered
  \/ CaptureLockBuffer
  \/ CaptureLockHasTalked
  \/ CaptureLockLastTime
  \/ CaptureBody
  \/ Poll
  \/ MainLockBuffer
  \/ MainLockHasTalked
  \/ TranscribeDone
  \/ TranscribeFail
  \/ Clear
  \/ ResetHasTalked
  \/ CheckMute
  \/ ResetTimeout
  \/ TimeoutToolCall
  \/ ChatOk
  \/ ChatErr
  \/ SynthDone
  \/ SynthFail
  \/ PlayDone
  \/ Tick

Spec == Init /\ [][Next]_vars

TypeOK ==
  /\ now \in 0..MaxTime
  /\ Len(speech_buffer) <= MaxBuf
  /\ has_talked \in BOOLEAN
  /\ last_voice_time \in 0..MaxTime
  /\ owner \in [Locks -> {"none", "capture", "main"}]

\* ------------------------------------------- the pure functions on their own
\* all sequences over S of length at most n
RECURSIVE SeqsUpTo(_, _)
SeqsUpTo(S, n) ==
  IF n = 0 THEN { <<>> }
  ELSE LET shorter == SeqsUpTo(S, n - 1)
       IN shorter \cup { Append(q, x) : q \in shorter, x \in S }

\* device rates, in Hz
Rates == {22050, 32000, 44100, 48000, 96000}

ResampleInputs == SeqsUpTo({1, 2}, MaxLen)

\* "</think>" as code points
THINK_END == <<60, 47, 116, 104, 105, 110, 107, 62>>

\* 'a', U+1F600 (grinning face), U+4F60 (CJK), U+D55C (Hangul)
TextChars == {97, 128512, 20320, 54620}

Replies ==
  { a \o m \o b : a \in SeqsUpTo(TextChars, MaxText),
                   m \in { <<>>, THINK_END },
                   b \in SeqsUpTo(TextChars, MaxText) }

\* str::find: index of the first occurrence, or -1 for None
find(s, pat) ==
  LET hits == { i \in 0..(Len(s) - Len(pat)) :
                  \A j \in 1..Len(pat) : s[i + j] = pat[j] }
  IN IF hits = {} THEN -1
     ELSE CHOOSE i \in hits : \A k \in hits : i <= k

\* input[i..], i being find("</think>") + 8, or 0
remove_think_tags(input) ==
  LET f == find(input, THINK_END)
      i == IF f = -1 THEN 0 ELSE f + 8
  IN SubSeq(input, i + 1, Len(input))

\* the character class of the regex
InEmojiClass(c) ==
  \/ c \in 128512..128591   \* 1F600-1F64F
  \/ c \in 127744..128511   \* 1F300-1F5FF
  \/ c \in 128640..128767   \* 1F680-1F6FF
  \/ c \in 127456..127487   \* 1F1E0-1F1FF
  \/ c \in 9986..10160      \* 2702-27B0
  \/ c \in 9410..127569     \* 24C2-1F251

\* regex.replace_all(&string, "")
remove_emoji(string) == SelectSeq(string, LAMBDA c : ~ InEmojiClass(c))

InitResample ==
  /\ MainInit
  /\ fn_pc = "resample"
  /\ fn_in \in ResampleInputs
  /\ fn_rate \in Rates
  /\ fn_out = <<>>

Resample ==
  /\ fn_pc = "resample"
  /\ fn_out' = downsample_to_16k(fn_in, fn_rate)
  /\ fn_pc' = "done"
  /\ UNCHANGED << mainVars, fn_in, fn_rate >>

NextResample == Resample

SpecResample == InitResample /\ [][NextResample]_vars

InitSynthInput ==
  /\ MainInit
  /\ fn_pc = "clean"
  /\ fn_in \in Replies
  /\ fn_rate = 0
  /\ fn_out = <<>>

\* remove_emoji(remove_think_tags(&result)), the text given to the synthesizer
SynthInput ==
  /\ fn_pc = "clean"
  /\ fn_out' = remove_emoji(remove_think_tags(fn_in))
  /\ fn_pc' = "done"
  /\ UNCHANGED << mainVars, fn_in, fn_rate >>

NextSynthInput == SynthInput

SpecSynthInput == InitSynthInput /\ [][NextSynthInput]_vars

\* ============================================================== properties
\* positions of the loop in which an external call is running
ExternalCall == {"transcribing", "chat", "synth", "play"}

\* positions of the loop from the start of transcription to the end of the turn
InTurn == {"transcribing", "clear", "reset_has_talked", "check_mute", "reset_timeout", "chat",
           "synth", "play"}

UpperChar(c) ==
  CASE c = "c" -> "C"
    [] c = "a" -> "A"
    [] c = "t" -> "T"
    [] OTHER -> c

\* the transcript has the magic word in it, in any letter case
SaysMagicWord(p) ==
  \E i \in 0..(Len(p) - Len(MAGIC_WORD)) :
    \A j \in 1..Len(MAGIC_WORD) :
      p[i + j] \in {MAGIC_WORD[j], UpperChar(MAGIC_WORD[j])}

\* the callback is stopped at a lock the coordination loop holds
CaptureWaitsOnMain ==
  \/ cap_pc = "lock_buffer" /\ owner["speech_buffer"] = "main"
  \/ cap_pc = "lock_has_talked" /\ owner["has_talked"] = "main"
  \/ cap_pc = "lock_last_time" /\ owner["last_voice_time"] = "main"

\* C1: whenever the coordinator is in Transcribing at the instant it entered,
\* has-voice is true and last-voice-at is more than silence_duration in the
\* past (the two trigger conditions hold on the shared state at the move).
C1_TriggerHoldsAtTransition ==
  (pc = "transcribing" /\ now = poll_at) =>
    (has_talked /\ now - last_voice_time > SilenceDuration)

\* C2: while the transcription call is in progress the shared buffer is empty
\* and has-voice is false (no frame can have arrived since: see C4).
C2_ClearedBeforeCall ==
  (pc = "transcribing") => (speech_buffer = <<>> /\ ~ has_talked)

\* C3: while transcription, the dialogue call, synthesis or playback runs,
\* the coordinator holds none of the four locks.
C3_NoLockAcrossCall ==
  (pc \in ExternalCall) => (\A l \in Locks : owner[l] # "main")

\* C4: while the coordinator is in Transcribing, Dispatching, Synthesizing or
\* Playing the capture callback is never waiting for a lock the coordinator
\* holds.
C4_CaptureNeverWaits ==
  (pc \in ExternalCall) => ~ CaptureWaitsOnMain

\* C5: the coordinator enters Transcribing at a poll tick in
\* [T + D, T + D + P), T being the time of the last voiced frame.
C5_PollWindow ==
  (pc = "transcribing") =>
    /\ poll_at >= last_voice_time + SilenceDuration
    /\ poll_at < last_voice_time + SilenceDuration + PollPeriod

\* C6: as long as no delivered frame had energy above the threshold,
\* has-voice is false and the coordinator is not in (and, the history being
\* monotonic, has never been in) Transcribing or any later state of a turn.
C6_SilenceNeverTriggers ==
  (~ voiced_seen) => (~ has_talked /\ pc \notin InTurn /\ pc # "panicked")

\* a run of silent frames, long after startup, polled with the elapsed test
\* passed
C6_Witness ==
  /\ ~ voiced_seen
  /\ pc = "lock_has_talked"
  /\ Len(speech_buffer) = MaxBuf
  /\ now >= 2 * SilenceDuration

\* C7: a frame with energy above the threshold sets has-voice and sets
\* last-voice-at to the current time; any other frame changes neither; and
\* has-voice goes from true to false only in the coordinator's reset.
C7_FrameEffect ==
  [][ /\ (cap_pc = "body" /\ cap_pc' = "idle") =>
           IF SumSq(cap_data) > SilenceThreshold * Len(cap_data)
             THEN has_talked' /\ last_voice_time' = now
             ELSE has_talked' = has_talked /\ last_voice_time' = last_voice_time
      /\ (has_talked /\ ~ has_talked') => (pc = "reset_has_talked" /\ pc' = "check_mute")
    ]_vars

\* a silent frame was appended after a voiced one, later in time, and left
\* has-voice and last-voice-at alone
C7_Witness ==
  /\ cap_pc = "idle"
  /\ cap_data = <<1, 1>>
  /\ speech_buffer = <<-2, 0, 1, 1>>
  /\ has_talked
  /\ last_voice_time < now

\* C8: at the mute check, a turn whose transcript lacks the magic word and
\* for which suppressed-until is later than now never gets past the check.
C8_SuppressedTurnDropped ==
  (pc = "reset_timeout") => ~ (timeout > now /\ ~ SaysMagicWord(prompt))

\* C9: at the mute check with suppression active and the magic word in the
\* transcript in any letter case, the turn is accepted; an accepted turn sets
\* suppressed-until to now and gives the dialogue engine the raw transcript.
C9_MagicWordAccepted ==
  [][ /\ (pc = "check_mute" /\ pc' # "check_mute"
            /\ timeout > now /\ SaysMagicWord(prompt))
           => pc' = "reset_timeout"
      /\ (pc = "reset_timeout" /\ pc' # "reset_timeout")
           => (timeout' = now /\ pc' = "chat" /\ chat_input' = prompt)
    ]_vars

\* the dialogue call has just been issued with "CaT" while the tool call of
\* an earlier turn still suppressed for a second or more
C9_Witness ==
  /\ pc = "chat"
  /\ tool_calls = 0
  /\ timeout = now
  /\ chat_input = <<"C", "a", "T">>
  /\ last_call.n > 0
  /\ last_call.at + last_call.n * TicksPerSec >= now + TicksPerSec

\* C10: a call of the mute tool with parameter N leaves suppressed-until at
\* the invocation time + N seconds, whatever it was before.
C10_ToolOverwrites ==
  [][ (tool_calls' = tool_calls + 1) =>
        (timeout' = now + last_call'.n * TicksPerSec) ]_vars

\* two calls in one dialogue call, 2 s then 1 s: the window got shorter
C10_Witness ==
  /\ tool_calls = 2
  /\ last_call.n = 1
  /\ last_call.before = last_call.at + 2 * TicksPerSec
  /\ timeout = last_call.at + TicksPerSec

\* a state a reader other than the coordinator can see both in: it can hold
\* both locks
ReaderCanLook ==
  owner["speech_buffer"] # "main" /\ owner["has_talked"] # "main"

\* C11 (as claimed): a reader of both never sees the buffer empty with
\* has-voice true, nor has-voice false with the buffer non-empty.
C11_BufferIffVoice ==
  ReaderCanLook => ((speech_buffer = <<>>) <=> ~ has_talked)

\* C11 (amended): the two clears run with both locks held by the coordinator,
\* and a reader of both never sees the buffer empty with has-voice true.
C11_ClearedUnderBothLocks ==
  /\ (pc \in {"clear", "reset_has_talked"}) =>
       (owner["speech_buffer"] = "main" /\ owner["has_talked"] = "main")
  /\ ReaderCanLook => (has_talked => speech_buffer # <<>>)

\* the callback holds the locks right after a turn cleared both
C11_Witness ==
  /\ cap_pc = "body"
  /\ prev_end # "none"
  /\ speech_buffer = <<>>
  /\ ~ has_talked

\* C12 (as claimed): the buffer handed to transcription is the concatenation
\* of every frame delivered to the callback since the previous reset.
C12_InputIsEveryDeliveredFrame ==
  (pc = "transcribing") => (speech_buffer = delivered)

\* C12 (amended): the frames delivered since the previous reset are, in
\* order, the buffer followed by the frame of a callback that has not got
\* the lock yet; so the transcription input is every frame appended since
\* the reset, voiced or silent, and nothing is dropped, reordered or handed
\* over twice.
C12_BufferIsDeliveredStream ==
  speech_buffer \o InFlight = delivered

\* second turn: the input is the silent and the voiced frame delivered since
\* the first turn's reset
C12_Witness ==
  /\ pc = "transcribing"
  /\ prev_end = "played"
  /\ speech_buffer = <<1, 1, -2, 0>>
  /\ delivered = <<1, 1, -2, 0>>

\* C13: transcription of an utterance starts only from the poll, outside any
\* turn, and a turn is left for the next poll only by the drop at the mute
\* check, the dialogue failure, or the end of playback.
C13_SingleFlight ==
  [][ /\ (pc' = "transcribing" /\ pc # "transcribing") => pc = "lock_has_talked"
      /\ (pc \in InTurn /\ pc' \notin InTurn /\ pc' # "panicked") =>
           /\ pc' = "sleep"
           /\ \/ pc = "check_mute" /\ prev_end' = "dropped"
              \/ pc = "chat" /\ prev_end' = "abandoned"
              \/ pc = "play" /\ prev_end' = "played"
    ]_vars

\* a new utterance is transcribed after the previous one was dropped
C13_Witness ==
  /\ pc = "transcribing"
  /\ prev_end = "dropped"

\* C14: a failed dialogue call ends the turn without synthesis or playback:
\* the loop goes back to its poll with the utterance gone (buffer empty,
\* has-voice false), its locks released and the process alive.
C14_DialogueFailureAbandons ==
  [][ (pc = "chat" /\ pc' \notin {"chat", "synth"}) =>
        /\ pc' = "sleep"
        /\ prev_end' = "abandoned"
        /\ wake_at' = now + PollPeriod
        /\ speech_buffer' = <<>>
        /\ ~ has_talked'
        /\ \A l \in Locks : owner'[l] # "main"
    ]_vars

\* the utterance after an abandoned turn reached playback
C14_Witness ==
  /\ pc = "play"
  /\ prev_end = "abandoned"

\* C15: a turn is dropped for the mute window only at the mute check; once
\* the dialogue call returned, the reply is synthesized and played whatever
\* suppressed-until is.
C15_MuteOnlyAtCheck ==
  [][ /\ (pc \in InTurn /\ pc' = "sleep" /\ prev_end' = "dropped")
           => pc = "check_mute"
      /\ (pc = "synth" /\ pc' \notin {"synth", "panicked"}) => pc' = "play"
      /\ (pc = "play" /\ pc' # "play") => (pc' = "sleep" /\ prev_end' = "played")
    ]_vars

\* the reply is playing although the tool, called in this dialogue call, set
\* a window that would drop this transcript
C15_Witness ==
  /\ pc = "play"
  /\ tool_calls > 0
  /\ last_call.at = poll_at
  /\ Muted(timeout, now, prompt)

\* the lock each context is about to take
MainWants ==
  CASE pc = "sleep" /\ now >= wake_at -> {"last_voice_time"}
    [] pc = "lock_buffer" -> {"speech_buffer"}
    [] pc = "lock_has_talked" -> {"has_talked"}
    [] pc \in {"check_mute", "reset_timeout"} -> {"timeout"}
    [] OTHER -> {}

CaptureWants ==
  CASE cap_pc = "lock_buffer" -> {"speech_buffer"}
    [] cap_pc = "lock_has_talked" -> {"has_talked"}
    [] cap_pc = "lock_last_time" -> {"last_voice_time"}
    [] OTHER -> {}

\* C19: the coordinator never waits for a lock it holds; the coordinator and
\* the callback never wait for each other; and the timeout lock, which the
\* tool takes inside the dialogue call, is free while that call runs.
C19_NoDeadlock ==
  /\ \A l \in MainWants : owner[l] # "main"
  /\ ~ ( /\ \E l \in MainWants : owner[l] = "capture"
         /\ \E l \in CaptureWants : owner[l] = "main" )
  /\ (pc = "chat") => owner["timeout"] = "none"

\* the tool ran inside the dialogue call while the callback waits for the
\* buffer lock the coordinator holds
C19_Witness ==
  /\ pc = "chat"
  /\ tool_calls > 0
  /\ CaptureWaitsOnMain

\* C20: from a tool call until the next accepted turn's reset, suppressed-until
\* is the tool's invocation time + N seconds (tool_calls is zeroed by that
\* reset and by nothing else).
C20_ToolValueSurvivesTurn ==
  (tool_calls > 0) => (timeout = last_call.at + last_call.n * TicksPerSec)

\* the next utterance is at the mute check and the window set during the
\* previous turn's dialogue call is still there
C20_Witness ==
  /\ pc = "check_mute"
  /\ tool_calls > 0
  /\ last_call.n > 0
  /\ last_call.at < poll_at
  /\ timeout = last_call.at + last_call.n * TicksPerSec

IsEmoji(c) ==
  \/ c \in 128512..128591
  \/ c \in 127744..128511
  \/ c \in 128640..128767
  \/ c \in 127456..127487
  \/ c \in 9986..10160

\* C17: the synthesis input is the text after the marker (the whole reply
\* without one), minus its emoji, every other character kept in order.
C17_OnlyEmojiRemoved ==
  (fn_pc = "done") =>
    fn_out = SelectSeq(remove_think_tags(fn_in), LAMBDA c : ~ IsEmoji(c))

\* C18: for a rate above 16 kHz, N samples give N * 16000 / R samples to
\* within one.
C18_OutputIs16k ==
  (fn_pc = "done" /\ fn_rate > 16000) =>
    /\ Len(fn_out) * fn_rate - Len(fn_in) * 16000 <= fn_rate
    /\ Len(fn_in) * 16000 - Len(fn_out) * fn_rate <= fn_rate

====
